---- MODULE Spec2Model ----
(***************************************************************************)
(* Model of the asset-macros crate: the recursive file discovery           *)
(* (utils.rs collect_files), the identifier synthesis (utils.rs            *)
(* path_to_variant_name, built on convert_case's Converter) and the        *)
(* assembly and emission of the asset enum (ir.rs AssetEnum).              *)
(*                                                                         *)
(* A string is a sequence of one-character strings; a path (PathBuf) is a  *)
(* sequence of components, each a string.                                  *)
(***************************************************************************)
EXTENDS Integers, Sequences, FiniteSets, TLC

VARIABLES
    fs,             \* the file system: absolute path -> "dir" | "file" | "other"
    include_regex,  \* Option<Regex>: <<>> for None, <<pattern>> for Some(pattern)
    ignore_regex,   \* Option<Regex>: <<>> for None, <<pattern>> for Some(pattern)
    stack,          \* the active calls of collect_files: [dir, entries left to read]
    files,          \* valid_files: Vec<PathBuf>
    pc,             \* the position of AssetEnum::try_from / to_tokens
    result,         \* the Result of try_from
    all_assets,     \* the variants listed by the emitted all()
    read_dirs,      \* history: directory -> the listing fs::read_dir gave for it
    io_error,       \* history: a read of a directory or of an entry has failed
    path_in,        \* a relative path handed directly to path_to_variant_name
    name_out        \* separator the segments were joined with -> the name returned

vars == <<fs, include_regex, ignore_regex, stack, files, pc, result, all_assets,
          read_dirs, io_error, path_in, name_out>>

\* the variables of the direct calls of path_to_variant_name
name_vars == <<path_in, name_out>>
\* the inputs of a run of try_from
input_vars == <<fs, include_regex, ignore_regex>>

(***************************************************************************)
(* Bounds of the model.                                                    *)
(***************************************************************************)
\* the number of entries (files, directories, others) below base_dir
MaxNodes == 3
\* the length of a string handed directly to path_to_variant_name
MaxLen == 3

(***************************************************************************)
(* Characters and strings.                                                 *)
(***************************************************************************)
LowerSeq == <<"a", "b", "e", "s", "t">>
UpperSeq == <<"A", "B", "E", "S", "T">>
Lower == { LowerSeq[k] : k \in 1..Len(LowerSeq) }
Upper == { UpperSeq[k] : k \in 1..Len(UpperSeq) }
Digit == {"1"}

\* char::to_uppercase / to_lowercase on the characters of the model
ToUpper(c) ==
    IF c \in Lower THEN UpperSeq[CHOOSE k \in 1..Len(LowerSeq) : LowerSeq[k] = c] ELSE c
ToLower(c) ==
    IF c \in Upper THEN LowerSeq[CHOOSE k \in 1..Len(UpperSeq) : UpperSeq[k] = c] ELSE c

\* char::is_numeric
IsNumeric(c) == c \in Digit

RECURSIVE Concat(_)
\* the concatenation of a sequence of strings
Concat(ws) == IF ws = <<>> THEN <<>> ELSE Head(ws) \o Concat(Tail(ws))

RECURSIVE Join(_, _)
\* the components joined with the separator delim
Join(comps, delim) ==
    IF comps = <<>> THEN <<>>
    ELSE IF Len(comps) = 1 THEN comps[1]
    ELSE comps[1] \o delim \o Join(Tail(comps), delim)

\* Path::to_string_lossy on a host whose separator is "/"
to_string_lossy(path) == Join(path, <<"/">>)

(***************************************************************************)
(* convert_case: Boundary, split and the Pascal pattern, as configured by  *)
(* path_to_variant_name.                                                   *)
(***************************************************************************)
\* Boundary::from_delim(d), d one character: the delimiter itself is dropped
FromDelim(d) == [kind |-> "delim", arg |-> d, start |-> 0, len |-> 1]
\* a boundary between two characters of the given classes, no character dropped
Between(k) == [kind |-> k, arg |-> "", start |-> 1, len |-> 0]

\* Converter::new(): Boundary::defaults()
DefaultBoundaries ==
    << FromDelim("_"), FromDelim("-"), FromDelim(" "),
       Between("LowerUpper"), Between("Acronym"), Between("LowerDigit"),
       Between("UpperDigit"), Between("DigitLower"), Between("DigitUpper") >>

\* a faulty variant of AddedBoundaries: the backslash delimiter is forgotten
AddedBoundariesNoBackslash == << FromDelim("/"), FromDelim(".") >>

\* .add_boundaries(&[from_delim("/"), from_delim(r"\"), from_delim(".")])
AddedBoundaries == << FromDelim("/"), FromDelim("\\"), FromDelim(".") >>

Boundaries == DefaultBoundaries \o AddedBoundaries

\* (boundary.condition)(&graphemes[i..], boundary.arg), i counted from 1
Condition(b, s, i) ==
    LET has(k) == i + k <= Len(s)
        at(k) == s[i + k]
    IN CASE b.kind = "delim"      -> s[i] = b.arg
         [] b.kind = "LowerUpper" -> has(1) /\ at(0) \in Lower /\ at(1) \in Upper
         [] b.kind = "Acronym"    -> has(2) /\ at(0) \in Upper /\ at(1) \in Upper
                                            /\ at(2) \in Lower
         [] b.kind = "LowerDigit" -> has(1) /\ at(0) \in Lower /\ at(1) \in Digit
         [] b.kind = "UpperDigit" -> has(1) /\ at(0) \in Upper /\ at(1) \in Digit
         [] b.kind = "DigitLower" -> has(1) /\ at(0) \in Digit /\ at(1) \in Lower
         [] b.kind = "DigitUpper" -> has(1) /\ at(0) \in Digit /\ at(1) \in Upper

\* the index of the first boundary of the list whose condition holds at i, or 0
FirstBoundary(bs, s, i) ==
    LET hits == {k \in 1..Len(bs) : Condition(bs[k], s, i)}
    IN IF hits = {} THEN 0
       ELSE CHOOSE k \in hits : \A m \in hits : k <= m

RECURSIVE SplitFrom(_, _, _, _, _)
\* the loop of split: i the position, last the start of the current word
SplitFrom(bs, s, i, last, words) ==
    IF i > Len(s) THEN Append(words, SubSeq(s, last, Len(s)))
    ELSE LET k == FirstBoundary(bs, s, i)
         IN IF k = 0 THEN SplitFrom(bs, s, i + 1, last, words)
            ELSE SplitFrom(bs, s, i + 1, i + bs[k].start + bs[k].len,
                           Append(words, SubSeq(s, last, i + bs[k].start - 1)))

\* convert_case::split: the words between the boundaries, the empty ones dropped
split(s, bs) ==
    IF s = <<>> THEN <<>>
    ELSE SelectSeq(SplitFrom(bs, s, 1, 1, <<>>), LAMBDA w : w # <<>>)

\* the Capital word case: first character upper, the rest lower
Capital(w) ==
    IF w = <<>> THEN <<>>
    ELSE <<ToUpper(w[1])>> \o [k \in 1..(Len(w) - 1) |-> ToLower(w[k + 1])]

\* Converter::convert with Case::Pascal: capitalised words, joined by ""
convert(s) ==
    LET ws == split(s, Boundaries)
    IN Concat([k \in 1..Len(ws) |-> Capital(ws[k])])

AssetPrefix == <<"A", "s", "s", "e", "t">>

\* a faulty variant of path_to_variant_name: the digit test is forgotten
path_to_variant_name_no_prefix(path_str) == convert(path_str)

\* utils.rs path_to_variant_name, on the string of the path
path_to_variant_name(path_str) ==
    LET variant_name == convert(path_str)
    IN IF variant_name # <<>> /\ IsNumeric(variant_name[1])
       THEN AssetPrefix \o variant_name
       ELSE variant_name

(***************************************************************************)
(* Regex: the patterns of the model are a literal searched anywhere in the *)
(* text ("lit") or a literal anchored at its end ("lit$").                 *)
(***************************************************************************)
Anywhere(lit) == [anchor |-> "none", lit |-> lit]
AtEnd(lit) == [anchor |-> "end", lit |-> lit]

\* Regex::is_match(text)
is_match(regex, text) ==
    LET n == Len(regex.lit)
    IN IF regex.anchor = "end"
       THEN n <= Len(text) /\ SubSeq(text, Len(text) - n + 1, Len(text)) = regex.lit
       ELSE \E i \in 1..(Len(text) - n + 1) : SubSeq(text, i, i + n - 1) = regex.lit

\* the include patterns tried: `b$` and `r` (which matches base_dir's own name)
IncludePatterns == { AtEnd(<<"b">>), Anywhere(<<"r">>) }
\* the ignore patterns tried: `a$` and `_`
IgnorePatterns == { AtEnd(<<"a">>), Anywhere(<<"_">>) }

(***************************************************************************)
(* The file system under base_dir.                                         *)
(***************************************************************************)
\* dir_path: CARGO_MANIFEST_DIR joined with the directory literal
dir_path == << <<"r">> >>

\* the file names tried: a, b and a_b
FileNames == { <<"a">>, <<"b">>, <<"a", "_", "b">> }

\* directory, regular file, or neither (a dangling symlink, a FIFO, a socket)
Kinds == {"dir", "file", "other"}

IsPrefix(p, q) == Len(p) <= Len(q) /\ SubSeq(q, 1, Len(p)) = p
Parent(p) == SubSeq(p, 1, Len(p) - 1)

RECURSIVE TreesUpTo(_)
\* the sets of at most n paths below dir_path that are closed under Parent
TreesUpTo(n) ==
    IF n = 0 THEN { {} }
    ELSE LET smaller == TreesUpTo(n - 1)
             grown(t) == { t \cup {Append(d, nm)} :
                             d \in t \cup {dir_path}, nm \in FileNames }
         IN smaller \cup
            UNION { { u \in grown(t) : Cardinality(u) = n } :
                      t \in { x \in smaller : Cardinality(x) = n - 1 } }

\* the file systems tried: base_dir a directory holding a tree of entries, a
\* path with entries below it being a directory; or base_dir a regular file;
\* or base_dir missing
FileSystems ==
    UNION { { f \in [t \cup {dir_path} -> Kinds] :
                /\ f[dir_path] = "dir"
                /\ \A p \in t : f[Parent(p)] = "dir" } : t \in TreesUpTo(MaxNodes) }
    \cup { [p \in {dir_path} |-> "file"], [p \in {} |-> "dir"] }

\* Path::exists
exists(path) == path \in DOMAIN fs
\* Path::is_dir: false too for what is no directory or cannot be examined
is_dir(path) == path \in DOMAIN fs /\ fs[path] = "dir"

\* a faulty variant of Children: an entry's path is its file name alone
\* (entry.file_name() in place of entry.path())
ChildrenByFileName(d) ==
    { << p[Len(p)] >> : p \in { q \in DOMAIN fs : Len(q) = Len(d) + 1 /\ IsPrefix(d, q) } }

\* the entries of directory d, each with entry.path(): d joined with its name
Children(d) == { p \in DOMAIN fs : Len(p) = Len(d) + 1 /\ IsPrefix(d, p) }

\* the orders in which fs::read_dir may list a set of entries
Listings(S) ==
    { l \in [1..Cardinality(S) -> S] : \A i, j \in 1..Cardinality(S) : l[i] = l[j] => i = j }

(***************************************************************************)
(* utils.rs collect_files, one action per directory entry handled, and     *)
(* ir.rs AssetEnum::try_from around it.                                    *)
(***************************************************************************)
Top == stack[Len(stack)]
\* entry.path() of the entry the innermost read_dir iterator yields next
NextPath == Head(Top.entries)

\* a faulty variant of Ignored: the ignore pattern is tried on files only
IgnoredFilesOnly(path) ==
    IF ignore_regex = <<>> THEN FALSE
    ELSE ~is_dir(path) /\ is_match(ignore_regex[1], to_string_lossy(path))

\* ignore_regex.as_ref().is_some_and(|regex| regex.is_match(&path_str))
Ignored(path) ==
    IF ignore_regex = <<>> THEN FALSE
    ELSE is_match(ignore_regex[1], to_string_lossy(path))

\* include_regex.as_ref().is_none_or(|regex| regex.is_match(&path_str))
Included(path) ==
    IF include_regex = <<>> THEN TRUE
    ELSE is_match(include_regex[1], to_string_lossy(path))

\* a faulty variant of Fail: the error is dropped and what was collected is used
FailKeepsPartial(msg) ==
    /\ result' = result
    /\ pc' = "collected"
    /\ stack' = <<>>

\* collect_files returns Err, `?` hands it up through every caller, and
\* try_from returns the syn::Error that map_err builds from it
Fail(msg) ==
    /\ result' = [kind |-> "Err", msg |-> msg, entries |-> <<>>]
    /\ pc' = "done"
    /\ stack' = <<>>

Advanced == [stack EXCEPT ![Len(stack)].entries = Tail(@)]

\* collect_files(dir_path): base_dir does not exist
StartNotFound ==
    /\ pc = "start"
    /\ ~exists(dir_path)
    /\ Fail("Failed to read directory: Directory not found")
    /\ UNCHANGED <<input_vars, name_vars, files, all_assets, read_dirs, io_error>>

\* collect_files(dir_path): fs::read_dir(dir)? fails, always so on what is no
\* directory
StartReadDirFails ==
    /\ pc = "start"
    /\ exists(dir_path)
    /\ Fail("Failed to read directory: io error")
    /\ io_error' = TRUE
    /\ UNCHANGED <<input_vars, name_vars, files, all_assets, read_dirs>>

\* collect_files(dir_path): fs::read_dir(dir)? yields the entries in some order
StartReadDir ==
    /\ pc = "start"
    /\ is_dir(dir_path)
    /\ \E l \in Listings(Children(dir_path)) :
          /\ stack' = << [dir |-> dir_path, entries |-> l] >>
          /\ read_dirs' = (dir_path :> l)
    /\ pc' = "collect"
    /\ UNCHANGED <<input_vars, name_vars, files, result, all_assets, io_error>>

\* `let entry = entry?`: reading the next entry fails
EntryFails ==
    /\ pc = "collect" /\ Top.entries # <<>>
    /\ Fail("Failed to read directory: io error")
    /\ io_error' = TRUE
    /\ UNCHANGED <<input_vars, name_vars, files, all_assets, read_dirs>>

\* the entry matches the ignore pattern: continue
EntryIgnored ==
    /\ pc = "collect" /\ Top.entries # <<>>
    /\ Ignored(NextPath)
    /\ stack' = Advanced
    /\ UNCHANGED <<input_vars, name_vars, files, pc, result, all_assets,
                   read_dirs, io_error>>

\* a faulty variant of Descends: a directory is entered only if the include pattern
\* matches it
DescendsIfIncluded(path) == is_dir(path) /\ Included(path)

\* `if path.is_dir()`
Descends(path) == is_dir(path)

\* a directory: the recursive collect_files(&path, ...) reads it
EntryDir ==
    /\ pc = "collect" /\ Top.entries # <<>>
    /\ ~Ignored(NextPath)
    /\ Descends(NextPath)
    /\ \E l \in Listings(Children(NextPath)) :
          /\ stack' = Append(Advanced, [dir |-> NextPath, entries |-> l])
          /\ read_dirs' = (NextPath :> l) @@ read_dirs
    /\ UNCHANGED <<input_vars, name_vars, files, pc, result, all_assets, io_error>>

\* a directory: fs::read_dir fails in the recursive call, and `?` hands the
\* error up through every caller
EntryDirReadFails ==
    /\ pc = "collect" /\ Top.entries # <<>>
    /\ ~Ignored(NextPath)
    /\ Descends(NextPath)
    /\ Fail("Failed to read directory: io error")
    /\ io_error' = TRUE
    /\ UNCHANGED <<input_vars, name_vars, files, all_assets, read_dirs>>

\* not a directory, and the include pattern is absent or matches: files.push(path)
EntryFileKept ==
    /\ pc = "collect" /\ Top.entries # <<>>
    /\ ~Ignored(NextPath)
    /\ ~Descends(NextPath)
    /\ Included(NextPath)
    /\ files' = Append(files, NextPath)
    /\ stack' = Advanced
    /\ UNCHANGED <<input_vars, name_vars, pc, result, all_assets, read_dirs, io_error>>

\* not a directory, and the include pattern does not match
EntryFileSkipped ==
    /\ pc = "collect" /\ Top.entries # <<>>
    /\ ~Ignored(NextPath)
    /\ ~Descends(NextPath)
    /\ ~Included(NextPath)
    /\ stack' = Advanced
    /\ UNCHANGED <<input_vars, name_vars, files, pc, result, all_assets,
                   read_dirs, io_error>>

\* the loop of one call is over: Ok(()); the outermost call returns to try_from
Return ==
    /\ pc = "collect" /\ Top.entries = <<>>
    /\ stack' = SubSeq(stack, 1, Len(stack) - 1)
    /\ pc' = IF Len(stack) = 1 THEN "collected" ELSE "collect"
    /\ UNCHANGED <<input_vars, name_vars, files, result, all_assets, read_dirs, io_error>>

\* Path::strip_prefix(base): <<rest>> for Ok(rest), <<>> for Err
strip_prefix(path, base) ==
    IF IsPrefix(base, path) THEN << SubSeq(path, Len(base) + 1, Len(path)) >> ELSE <<>>

\* what format_ident! accepts: an identifier start, then identifier characters
IsIdent(name) ==
    /\ name # <<>>
    /\ name[1] \in Lower \cup Upper \cup {"_"}
    /\ \A k \in 1..Len(name) : name[k] \in Lower \cup Upper \cup Digit \cup {"_"}
    /\ name # <<"_">>

\* the closure of the map in try_from: one AssetEntry from one path
Entry(path) ==
    LET rel_path == strip_prefix(path, dir_path)[1]
    IN [ variant_ident |-> path_to_variant_name(to_string_lossy(rel_path)),
         full_path |-> to_string_lossy(path),
         rel_path |-> to_string_lossy(rel_path) ]

\* a faulty variant of Entries: the entries are collected in reverse
EntriesReversed(paths) ==
    [i \in 1..Len(paths) |-> Entry(paths[Len(paths) + 1 - i])]

\* valid_files.into_iter().map(..).collect()
Entries(paths) == [i \in 1..Len(paths) |-> Entry(paths[i])]

\* a faulty variant of NoMatches: the empty check is forgotten
NoMatchesNever(paths) == FALSE

\* `if valid_files.is_empty()`
NoMatches(paths) == paths = <<>>

\* unwrap() of a failed strip_prefix, or format_ident! of what is no identifier
Panics(paths) ==
    \E i \in 1..Len(paths) :
        \/ strip_prefix(paths[i], dir_path) = <<>>
        \/ ~IsIdent(Entry(paths[i]).variant_ident)

\* try_from after collect_files returned Ok: the empty check, then the entries
Assemble ==
    /\ pc = "collected"
    /\ IF NoMatches(files)
       THEN /\ result' = [kind |-> "Err", msg |-> "No matching files found", entries |-> <<>>]
            /\ pc' = "done"
       ELSE IF Panics(files)
       THEN /\ result' = [kind |-> "Panic", msg |-> "", entries |-> <<>>]
            /\ pc' = "done"
       ELSE /\ result' = [kind |-> "Ok", msg |-> "", entries |-> Entries(files)]
            /\ pc' = "assembled"
    /\ UNCHANGED <<input_vars, name_vars, stack, files, all_assets, read_dirs, io_error>>

\* AssetEnum::to_tokens: ALL_ASSETS lists the variant of each entry
ToTokens ==
    /\ pc = "assembled"
    /\ all_assets' = [i \in 1..Len(result.entries) |-> result.entries[i].variant_ident]
    /\ pc' = "emitted"
    /\ UNCHANGED <<input_vars, name_vars, stack, files, result, read_dirs, io_error>>

NoResult == [kind |-> "None", msg |-> "", entries |-> <<>>]

Init ==
    /\ fs \in FileSystems
    /\ include_regex \in {<<>>} \cup { <<r>> : r \in IncludePatterns }
    /\ ignore_regex \in {<<>>} \cup { <<r>> : r \in IgnorePatterns }
    /\ stack = <<>>
    /\ files = <<>>
    /\ pc = "start"
    /\ result = NoResult
    /\ all_assets = <<>>
    /\ read_dirs = <<>>
    /\ io_error = FALSE
    /\ path_in = <<>>
    /\ name_out = <<>>

Next ==
    \/ StartNotFound
    \/ StartReadDirFails
    \/ StartReadDir
    \/ EntryFails
    \/ EntryIgnored
    \/ EntryDir
    \/ EntryDirReadFails
    \/ EntryFileKept
    \/ EntryFileSkipped
    \/ Return
    \/ Assemble
    \/ ToTokens

\* one run of the assets! pipeline on a file system and a pair of patterns
Spec == Init /\ [][Next]_vars

(***************************************************************************)
(* Direct calls of path_to_variant_name, on every relative path of at most *)
(* MaxLen characters.                                                      *)
(***************************************************************************)
\* the characters of the relative paths tried; "/" separates the segments
Alphabet == {"a", "A", "1", ".", "_", "-", " ", "@", "\\", "/"}

RECURSIVE StringsUpTo(_)
StringsUpTo(n) ==
    IF n = 0 THEN { <<>> }
    ELSE LET shorter == StringsUpTo(n - 1)
         IN shorter \cup { Append(s, c) : s \in shorter, c \in Alphabet }

RECURSIVE Segments(_)
\* the segments of a path written with "/"
Segments(s) ==
    IF \A k \in 1..Len(s) : s[k] # "/" THEN << s >>
    ELSE LET k == CHOOSE k \in 1..Len(s) : s[k] = "/" /\ \A m \in 1..(k - 1) : s[m] # "/"
         IN << SubSeq(s, 1, k - 1) >> \o Segments(SubSeq(s, k + 1, Len(s)))

\* the relative paths a file below base_dir can have: segments that are file names
RelPaths ==
    { s \in StringsUpTo(MaxLen) :
        \A k \in 1..Len(Segments(s)) :
            Segments(s)[k] \notin { <<>>, <<".">>, <<".", ".">> } }

\* path_to_variant_name(path), the path's segments joined with the separator s
Synthesize(s) ==
    /\ pc = "idle"
    /\ s \notin DOMAIN name_out
    /\ name_out' = (s :> path_to_variant_name(Join(Segments(path_in), <<s>>))) @@ name_out
    /\ UNCHANGED <<input_vars, path_in, stack, files, pc, result, all_assets,
                   read_dirs, io_error>>

InitNames ==
    /\ fs = <<>>
    /\ include_regex = <<>>
    /\ ignore_regex = <<>>
    /\ stack = <<>>
    /\ files = <<>>
    /\ pc = "idle"
    /\ result = NoResult
    /\ all_assets = <<>>
    /\ read_dirs = <<>>
    /\ io_error = FALSE
    /\ path_in \in RelPaths
    /\ name_out = <<>>

NextNames == \E s \in {"/", "\\"} : Synthesize(s)

\* path_to_variant_name as a function of its argument alone
SpecNames == InitNames /\ [][NextNames]_vars

(***************************************************************************)
(* The claims.                                                             *)
(***************************************************************************)
Range(q) == { q[i] : i \in 1..Len(q) }
NoDuplicates(q) == \A i, j \in 1..Len(q) : q[i] = q[j] => i = j
\* the entries of the file system below base_dir
Below == { p \in DOMAIN fs : IsPrefix(dir_path, p) /\ p # dir_path }
\* the proper ancestors of p below base_dir, and p itself
UpTo(p) == { SubSeq(p, 1, k) : k \in (Len(dir_path) + 1)..Len(p) }
PathStr(p) == Join(p, <<"/">>)
MatchesIgnore(p) == ignore_regex # <<>> /\ is_match(ignore_regex[1], PathStr(p))
MatchesInclude(p) == include_regex # <<>> /\ is_match(include_regex[1], PathStr(p))
\* collect_files has returned Ok to try_from
Discovered == pc \in {"collected", "assembled", "emitted"} \/ (pc = "done" /\ ~io_error /\ dir_path \in DOMAIN fs)

\* C1: with no include and no ignore pattern, collect_files returns exactly
\* the regular files below base_dir, each once, and nothing else.
C1_ExactlyTheRegularFiles ==
    (Discovered /\ include_regex = <<>> /\ ignore_regex = <<>>) =>
        /\ Range(files) = { p \in Below : fs[p] = "file" }
        /\ NoDuplicates(files)

\* C2: no path that matches the ignore pattern is collected or read as a
\* directory, and neither is anything beneath a directory that matches it.
C2_IgnoredNeverDescended ==
    \A p \in Range(files) \cup (DOMAIN read_dirs \ {dir_path}) :
        \A q \in UpTo(p) : ~MatchesIgnore(q)

\* C2's case: discovery is over, and a file that the include pattern matches
\* and the ignore pattern does not lies in a directory the ignore pattern matches
C2_Witness ==
    /\ Discovered
    /\ \E p \in Below :
          /\ fs[p] = "file" /\ MatchesInclude(p) /\ ~MatchesIgnore(p)
          /\ Parent(p) # dir_path /\ MatchesIgnore(Parent(p))
          /\ p \notin Range(files)

\* C3: when two discovered relative paths give the same identifier, try_from
\* fails with a duplicate-identifier error naming both; it never succeeds.
C3_DuplicateIdentifierFails ==
    (/\ pc \in {"done", "assembled", "emitted"}
     /\ Discovered
     /\ \E i, j \in 1..Len(files) :
           /\ i # j
           /\ Entry(files[i]).variant_ident = Entry(files[j]).variant_ident)
    => /\ result.kind = "Err"
       /\ result.msg = "Duplicate identifier"

\* C4: when discovery yields no file, try_from fails with the no-matching-files
\* error, and a successful AssetEnum has at least one entry.
C4_NoMatchesIsAnError ==
    /\ (pc \in {"done", "assembled", "emitted"} /\ Discovered /\ files = <<>>)
          => (result.kind = "Err" /\ result.msg = "No matching files found")
    /\ result.kind = "Ok" => Len(result.entries) >= 1

\* C4's case: the filters removed every file of a base_dir that holds some
C4_Witness ==
    /\ result.msg = "No matching files found"
    /\ \E p \in Below : fs[p] # "dir"

\* C5: the identifier does not begin with a digit: it is the Pascal-case
\* conversion, prefixed with Asset exactly when that conversion begins with one.
C5_NoLeadingDigit ==
    \A s \in DOMAIN name_out :
        LET conv == convert(Join(Segments(path_in), <<s>>))
            starts_numeric == conv # <<>> /\ conv[1] \in Digit
        IN /\ name_out[s] = <<>> \/ name_out[s][1] \notin Digit
           /\ starts_numeric => name_out[s] = AssetPrefix \o conv
           /\ ~starts_numeric => name_out[s] = conv

\* C5's case: a path that begins with a digit got the prefix
C5_Witness ==
    /\ "/" \in DOMAIN name_out
    /\ path_in[1] \in Digit
    /\ SubSeq(name_out["/"], 1, Len(AssetPrefix)) = AssetPrefix

\* C6: the identifier of every relative path is a valid identifier: not empty,
\* and made of identifier characters only.
C6_ValidIdentifier ==
    "/" \in DOMAIN name_out => IsIdent(name_out["/"])

\* C7: the identifier is the same whether the segments of the path are joined
\* with "/" or with "\".
C7_SeparatorIndependent ==
    DOMAIN name_out = {"/", "\\"} => name_out["/"] = name_out["\\"]

\* C7's case: a path of several segments, named under both conventions
C7_Witness ==
    /\ DOMAIN name_out = {"/", "\\"}
    /\ Len(Segments(path_in)) >= 2

\* C8: once base_dir is found missing or a read has failed, try_from has
\* returned an error: nothing collected so far becomes an asset group.
C8_AllOrNothing ==
    (pc # "start" /\ (io_error \/ dir_path \notin DOMAIN fs)) =>
        /\ pc = "done"
        /\ result.kind = "Err"
        /\ result.entries = <<>>
        /\ all_assets = <<>>

\* C8's case: a read failed below base_dir after files had been collected
C8_Witness ==
    /\ io_error
    /\ files # <<>>
    /\ Cardinality(DOMAIN read_dirs) >= 2

\* C9: an entry that is no directory, was listed and is not ignored is kept
\* exactly if the include pattern is absent or matches its full path; a
\* directory that was listed and is not ignored is read whatever the include
\* pattern says of it.
C9_IncludeAppliesToFilesOnly ==
    Discovered =>
        \A p \in Below :
            (Parent(p) \in DOMAIN read_dirs /\ ~MatchesIgnore(p)) =>
                IF fs[p] = "dir"
                THEN p \in DOMAIN read_dirs
                ELSE (p \in Range(files)) <=> (include_regex = <<>> \/ MatchesInclude(p))

\* C9's case: a kept file in a directory that the include pattern does not match
C9_Witness ==
    /\ Discovered
    /\ include_regex # <<>>
    /\ \E p \in Range(files) :
          /\ Parent(p) # dir_path
          /\ ~MatchesInclude(Parent(p))

\* the position of x in the listing l
Pos(l, x) == CHOOSE i \in 1..Len(l) : l[i] = x
\* the length of the longest common prefix of two paths
Common(p, q) ==
    CHOOSE n \in 0..Len(p) :
        /\ n <= Len(q) /\ SubSeq(p, 1, n) = SubSeq(q, 1, n)
        /\ \A m \in (n + 1)..Len(p) : m > Len(q) \/ SubSeq(p, 1, m) # SubSeq(q, 1, m)
\* p was collected before q: in the directory where their paths part, the
\* entry leading to p was listed before the entry leading to q
ListedBefore(p, q) ==
    LET n == Common(p, q)
        l == read_dirs[SubSeq(p, 1, n)]
    IN Pos(l, SubSeq(p, 1, n + 1)) < Pos(l, SubSeq(q, 1, n + 1))

\* C10: the entries correspond one to one, in order, to the discovered paths,
\* which are in depth-first listing order; all() lists the variants in that
\* order.
C10_EntriesInDiscoveryOrder ==
    /\ pc \in {"assembled", "emitted"} =>
          /\ Len(result.entries) = Len(files)
          /\ \A i \in 1..Len(files) :
                /\ result.entries[i].full_path = PathStr(files[i])
                /\ result.entries[i].rel_path =
                      PathStr(SubSeq(files[i], Len(dir_path) + 1, Len(files[i])))
          /\ \A i, j \in 1..Len(files) : i < j => ListedBefore(files[i], files[j])
    /\ pc = "emitted" =>
          /\ Len(all_assets) = Len(result.entries)
          /\ \A i \in 1..Len(all_assets) :
                all_assets[i] = result.entries[i].variant_ident

\* C10's case: emitted entries of a subdirectory listed between two files
C10_Witness ==
    /\ pc = "emitted"
    /\ Len(files) >= 2
    /\ \E i \in 1..(Len(files) - 1) :
          /\ Len(files[i]) > Len(dir_path) + 1
          /\ Len(files[i + 1]) = Len(dir_path) + 1

\* C11: every path collected, at every depth, has base_dir as a proper prefix,
\* so strip_prefix(..).unwrap() in try_from never panics and the relative
\* path of every entry is not empty.
C11_CollectedBelowBaseDir ==
    /\ \A i \in 1..Len(files) :
          /\ Len(files[i]) > Len(dir_path)
          /\ SubSeq(files[i], 1, Len(dir_path)) = dir_path
    /\ result.kind # "Panic"
    /\ \A i \in 1..Len(result.entries) : result.entries[i].rel_path # <<>>

\* C11's case: entries were built from paths collected by the outermost call
\* and by a recursive one
C11_Witness ==
    /\ pc = "assembled"
    /\ \E i, j \in 1..Len(result.entries) :
          /\ Len(files[i]) = Len(dir_path) + 1
          /\ Len(files[j]) > Len(dir_path) + 1

====
